---------------------------- MODULE Spec2Model ----------------------------
(***************************************************************************)
(* Inventory ledger of InventoryService (Django REST framework).           *)
(*                                                                         *)
(* The stored state is the Inventory table (models.py).  Every request is  *)
(* served by a worker: the handler reads the row into a local object,      *)
(* changes the local object, and later writes the whole object back with   *)
(* inv.save() (views.py).  The read and the write are separate steps of    *)
(* the model, so that other workers can run between them, as they can in   *)
(* the service: no handler takes a lock or opens a transaction.            *)
(*                                                                         *)
(* Not modelled: permissions (every caller is taken to be authorised), the *)
(* updated_at column, and the generic retrieve/update/destroy routes of    *)
(* ModelViewSet.                                                           *)
(***************************************************************************)
EXTENDS Integers, FiniteSets, Sequences, TLC

\* ------------------------------------------------------------------ bounds
MaxStock == 2
MaxQty == 2
NumProducts == 2
NumWorkers == 2
NumRacers == 3
MaxCalls == 4

VARIABLES
  rows,       \* the Inventory table: a set of rows
  nextId,     \* the next AutoField primary key
  pc,         \* per worker: "idle", "save" (object changed, save pending), "done"
  req,        \* per worker: the request being served
  pre,        \* per worker: the row as the handler read it
  inv,        \* per worker: the handler's local object
  resp,       \* per worker: the response returned
  start,      \* history: the table of the initial state
  calls,      \* history: the number of requests accepted so far
  committed,  \* history: the sum of the quantities of successful commits
  prev        \* history: the last request a sequential worker completed

progVars == <<rows, nextId, pc, req, pre, inv, resp>>
histVars == <<start, calls, committed, prev>>
vars == <<rows, nextId, pc, req, pre, inv, resp, start, calls, committed, prev>>

Procs == 1..NumRacers
Workers == 1..NumWorkers
Pids == 1..NumProducts
TheShop == 1

Max(a, b) == IF a >= b THEN a ELSE b

\* ---------------------------------------------------- request (JSON) values
\* A value of a request body: absent/null, an integer, a non-numeric string,
\* or the fractional number v + 0.5 (v >= 0).
None == [kind |-> "none", v |-> 0]
IntV(n) == [kind |-> "int", v |-> n]
Text == [kind |-> "text", v |-> 0]
Half(n) == [kind |-> "float", v |-> n]

\* Python truthiness, as used by `x or 0` and `not x`.
Truthy(x) ==
  CASE x.kind = "none" -> FALSE
    [] x.kind = "int" -> x.v # 0
    [] x.kind = "text" -> TRUE
    [] OTHER -> TRUE

\* `x or 0`
OrZero(x) == IF Truthy(x) THEN x ELSE IntV(0)

\* Python int(x): an integer is kept, a float is truncated towards zero, a
\* non-numeric string raises ValueError and None raises TypeError.
PyInt(x) ==
  CASE x.kind = "int" -> [ok |-> TRUE, v |-> x.v]
    [] x.kind = "float" -> [ok |-> TRUE, v |-> x.v]
    [] OTHER -> [ok |-> FALSE, v |-> 0]

\* ------------------------------------------------------------------- rows
NoRow == [id |-> 0, product_id |-> 0, shop_id |-> 0, stock |-> 0,
          reserved |-> 0, threshold |-> 0, meta |-> 0]

Row(i, p, s, st, rs, th, m) ==
  [id |-> i, product_id |-> p, shop_id |-> s, stock |-> st,
   reserved |-> rs, threshold |-> th, meta |-> m]

\* a plausible slip: available() returns the stock, forgetting reserved
availableOfStock(r) == Max(r.stock, 0)

\* Inventory.available()
available(r) == Max(r.stock - r.reserved, 0)

\* a plausible slip: the lookup filters on the shop and forgets the product
LookupByShop(db, p, s) ==
  LET m == {r \in db : r.shop_id = s}
  IN IF m = {} THEN NoRow ELSE CHOOSE r \in m : TRUE

\* Inventory.objects.filter(product_id=..., shop_id=...).first()
Lookup(db, p, s) ==
  LET m == {r \in db : r.product_id = p /\ r.shop_id = s}
  IN IF m = {} THEN NoRow ELSE CHOOSE r \in m : TRUE

\* get_object_or_404(Inventory, pk=pk)
ById(db, i) ==
  LET m == {r \in db : r.id = i}
  IN IF m = {} THEN NoRow ELSE CHOOSE r \in m : TRUE

\* inv.save(): UPDATE of every column of the row with the object's pk
SaveRow(db, o) == {r \in db : r.id # o.id} \cup {o}

\* -------------------------------------------------------------- responses
NoResp == [status |-> 0, detail |-> "", stock |-> 0, reserved |-> 0, available |-> 0]

Err(st, d) == [status |-> st, detail |-> d, stock |-> 0, reserved |-> 0, available |-> 0]

\* Response(InventorySerializer(inv).data, status=...)
Data(st, o) ==
  [status |-> st, detail |-> "", stock |-> o.stock, reserved |-> o.reserved,
   available |-> available(o)]

ValidationErr == Err(400, "product_id, shop_id and positive quantity required")
NotFoundErr == Err(404, "Inventory record not found")
\* a plausible slip: insufficient availability reported as a missing record
NoStockAsNotFound == NotFoundErr

\* the answer of the unique-together validator of the serializer
UniqueTogetherErr ==
  Err(400, "The fields product_id, shop_id must make a unique set.")

NoStockErr == Err(400, "Not enough available stock")
NoReservedErr == Err(400, "Not enough reserved stock")
\* an exception no handler catches (int() of a non-numeric quantity)
ServerErr == Err(500, "unhandled exception")

\* --------------------------------------------------------------- requests
NoReq == [op |-> "none", product_id |-> None, shop_id |-> None, quantity |-> None,
          pk |-> 0, stock |-> None, threshold |-> None, meta |-> None, upstream |-> TRUE]

LedgerReq(o, p, s, q) == [NoReq EXCEPT !.op = o, !.product_id = p, !.shop_id = s, !.quantity = q]

\* What a handler has done when it stops or reaches inv.save().
Out(n, rd, o, rs) == [next |-> n, pre |-> rd, inv |-> o, resp |-> rs]


\* ------------------------------------------------------- handlers (views.py)
\* a plausible slip: the availability check left out
CanReserveUnchecked(found, q) == TRUE

\* reserve's check: `if inv.available() < qty` rejects
CanReserve(found, q) == available(found) >= q

\* reserve's change: inv.reserved += qty
ReserveUpdate(found, q) == [found EXCEPT !.reserved = @ + q]

\* a plausible slip: release drops the whole reservation
ReleaseUpdateAll(found, q) == [found EXCEPT !.reserved = 0]

\* a plausible slip: release without the clamp at zero
ReleaseUpdateNoClamp(found, q) == [found EXCEPT !.reserved = @ - q]

\* release's change: inv.reserved = max(inv.reserved - qty, 0)
ReleaseUpdate(found, q) == [found EXCEPT !.reserved = Max(@ - q, 0)]

\* a plausible slip: commit's check of reserved left out
CanCommitUnchecked(found, q) == TRUE

\* commit's check: `if inv.reserved < qty` rejects
CanCommit(found, q) == found.reserved >= q

\* a plausible slip: commit takes the units from stock and leaves reserved
CommitUpdateStockOnly(found, q) == [found EXCEPT !.stock = Max(@ - q, 0)]

\* a plausible slip: commit without the clamp of stock at zero
CommitUpdateNoClamp(found, q) == [found EXCEPT !.reserved = @ - q, !.stock = @ - q]

\* commit's change: inv.reserved -= qty; inv.stock = max(inv.stock - qty, 0)
CommitUpdate(found, q) == [found EXCEPT !.reserved = @ - q, !.stock = Max(@ - q, 0)]

\* InventoryViewSet.reserve up to its inv.save()
ReserveHandler(db, r) ==
  LET q == PyInt(OrZero(r.quantity)) IN
  IF ~q.ok THEN Out("done", NoRow, NoRow, ServerErr)
  ELSE IF ~Truthy(r.product_id) \/ ~Truthy(r.shop_id) \/ q.v <= 0
  THEN Out("done", NoRow, NoRow, ValidationErr)
  ELSE LET found == Lookup(db, r.product_id.v, r.shop_id.v) IN
    IF found = NoRow THEN Out("done", NoRow, NoRow, NotFoundErr)
    ELSE IF ~CanReserve(found, q.v) THEN Out("done", found, found, NoStockErr)
    ELSE Out("save", found, ReserveUpdate(found, q.v), NoResp)

\* InventoryViewSet.release up to its inv.save()
ReleaseHandler(db, r) ==
  LET q == PyInt(OrZero(r.quantity)) IN
  IF ~q.ok THEN Out("done", NoRow, NoRow, ServerErr)
  ELSE IF ~Truthy(r.product_id) \/ ~Truthy(r.shop_id) \/ q.v <= 0
  THEN Out("done", NoRow, NoRow, ValidationErr)
  ELSE LET found == Lookup(db, r.product_id.v, r.shop_id.v) IN
    IF found = NoRow THEN Out("done", NoRow, NoRow, NotFoundErr)
    ELSE Out("save", found, ReleaseUpdate(found, q.v), NoResp)

\* InventoryViewSet.commit up to its inv.save()
CommitHandler(db, r) ==
  LET q == PyInt(OrZero(r.quantity)) IN
  IF ~q.ok THEN Out("done", NoRow, NoRow, ServerErr)
  ELSE IF ~Truthy(r.product_id) \/ ~Truthy(r.shop_id) \/ q.v <= 0
  THEN Out("done", NoRow, NoRow, ValidationErr)
  ELSE LET found == Lookup(db, r.product_id.v, r.shop_id.v) IN
    IF found = NoRow THEN Out("done", NoRow, NoRow, NotFoundErr)
    ELSE IF ~CanCommit(found, q.v) THEN Out("done", found, found, NoReservedErr)
    ELSE Out("save", found, CommitUpdate(found, q.v), NoResp)

\* One field of update_stock: absent keeps the column, int() of the value
\* otherwise.
PatchInt(x, old) ==
  IF x.kind = "none" THEN [ok |-> TRUE, v |-> old] ELSE PyInt(x)

\* InventoryViewSet.update_stock up to its inv.save()
UpdateStockHandler(db, r) ==
  LET found == ById(db, r.pk) IN
  IF found = NoRow THEN Out("done", NoRow, NoRow, Err(404, "Not found."))
  ELSE LET st == PatchInt(r.stock, found.stock)
           th == PatchInt(r.threshold, found.threshold)
       IN IF ~st.ok THEN Out("done", found, found, Err(400, "stock: invalid integer"))
          ELSE IF ~th.ok THEN Out("done", found, found, Err(400, "threshold: invalid integer"))
          ELSE Out("save", found,
                   [found EXCEPT !.stock = st.v, !.threshold = th.v,
                                 !.meta = IF r.meta.kind = "none" THEN @ ELSE r.meta.v],
                   NoResp)

\* a plausible slip: availability of a pair without a record raises NotFound
NoRecordAsNotFound == NotFoundErr

\* availability's answer for a pair without a record
NoRecordAvailability ==
  [status |-> 200, detail |-> "", stock |-> 0, reserved |-> 0, available |-> 0]

\* InventoryViewSet.availability: a read, no save
AvailabilityHandler(db, r) ==
  IF ~Truthy(r.product_id) \/ ~Truthy(r.shop_id)
  THEN Out("done", NoRow, NoRow, Err(400, "product_id and shop_id query params required"))
  ELSE LET found == Lookup(db, r.product_id.v, r.shop_id.v) IN
    IF found = NoRow
    THEN Out("done", NoRow, NoRow, NoRecordAvailability)
    ELSE Out("done", found, found,
             [status |-> 200, detail |-> "", stock |-> found.stock,
              reserved |-> found.reserved, available |-> available(found)])

\* The handler of a request that reads a row and may save it later.
Handle(db, r) ==
  CASE r.op = "reserve" -> ReserveHandler(db, r)
    [] r.op = "release" -> ReleaseHandler(db, r)
    [] r.op = "commit" -> CommitHandler(db, r)
    [] r.op = "update_stock" -> UpdateStockHandler(db, r)
    [] OTHER -> AvailabilityHandler(db, r)

\* A value of validated_data with its default: validated_data.get(k, 0)
GetOr(x, d) == IF x.kind = "none" THEN d ELSE x.v

\* InventorySerializer.create: update_or_create keyed by (product_id, shop_id);
\* it runs in one transaction on the locked row.  The result is the table,
\* the object returned and the next primary key.
UpdateOrCreate(db, nid, r) ==
  LET found == Lookup(db, r.product_id.v, r.shop_id.v)
      st == GetOr(r.stock, 0)
      th == GetOr(r.threshold, 0)
      m == GetOr(r.meta, 0)
  IN IF found = NoRow
     THEN LET o == Row(nid, r.product_id.v, r.shop_id.v, st, 0, th, m)
          IN [rows |-> db \cup {o}, obj |-> o, nextId |-> nid + 1]
     ELSE LET o == [found EXCEPT !.stock = st, !.threshold = th, !.meta = m]
          IN [rows |-> SaveRow(db, o), obj |-> o, nextId |-> nid]

\* ----------------------------------------------------------------- actions
\* Worker p serves request r up to the handler's return or its inv.save().
Begin(p, r) ==
  /\ pc[p] = "idle"
  /\ LET o == Handle(rows, r) IN
       /\ pc' = [pc EXCEPT ![p] = o.next]
       /\ req' = [req EXCEPT ![p] = r]
       /\ pre' = [pre EXCEPT ![p] = o.pre]
       /\ inv' = [inv EXCEPT ![p] = o.inv]
       /\ resp' = [resp EXCEPT ![p] = o.resp]
  /\ UNCHANGED <<rows, nextId>>

Reserve(p, R) == \E r \in R : r.op = "reserve" /\ Begin(p, r)

Release(p, R) == \E r \in R : r.op = "release" /\ Begin(p, r)

Commit(p, R) == \E r \in R : r.op = "commit" /\ Begin(p, r)

UpdateStock(p, R) == \E r \in R : r.op = "update_stock" /\ Begin(p, r)

Availability(p, R) == \E r \in R : r.op = "availability" /\ Begin(p, r)

\* inv.save() and the response that follows it
Save(p) ==
  /\ pc[p] = "save"
  /\ rows' = SaveRow(rows, inv[p])
  /\ resp' = [resp EXCEPT ![p] = Data(200, inv[p])]
  /\ pc' = [pc EXCEPT ![p] = "done"]
  /\ UNCHANGED <<nextId, req, pre, inv>>

\* POST /: CreateModelMixin.create up to perform_create, that is
\* serializer.is_valid().  validate_product_id asks the product service
\* (r.upstream: its answer); then the validator that a ModelSerializer derives
\* from Meta.unique_together rejects a pair that has a record.
Create(p, R) ==
  /\ pc[p] = "idle"
  /\ \E r \in R :
       /\ r.op = "create"
       /\ req' = [req EXCEPT ![p] = r]
       /\ LET found == Lookup(rows, r.product_id.v, r.shop_id.v) IN
          IF ~r.upstream
          THEN /\ resp' = [resp EXCEPT ![p] = Err(400, "product_id: not validated")]
               /\ pre' = [pre EXCEPT ![p] = NoRow]
               /\ pc' = [pc EXCEPT ![p] = "done"]
          ELSE IF found # NoRow
          THEN /\ resp' = [resp EXCEPT ![p] = UniqueTogetherErr]
               /\ pre' = [pre EXCEPT ![p] = found]
               /\ pc' = [pc EXCEPT ![p] = "done"]
          ELSE /\ resp' = [resp EXCEPT ![p] = NoResp]
               /\ pre' = [pre EXCEPT ![p] = NoRow]
               /\ pc' = [pc EXCEPT ![p] = "create"]
  /\ inv' = [inv EXCEPT ![p] = NoRow]
  /\ UNCHANGED <<rows, nextId>>

\* perform_create -> serializer.save() -> InventorySerializer.create, on the
\* table as it is now
PerformCreate(p) ==
  /\ pc[p] = "create"
  /\ LET u == UpdateOrCreate(rows, nextId, req[p]) IN
       /\ rows' = u.rows
       /\ nextId' = u.nextId
       /\ pre' = [pre EXCEPT ![p] = Lookup(rows, req[p].product_id.v, req[p].shop_id.v)]
       /\ inv' = [inv EXCEPT ![p] = u.obj]
       /\ resp' = [resp EXCEPT ![p] = Data(201, u.obj)]
  /\ pc' = [pc EXCEPT ![p] = "done"]
  /\ UNCHANGED req

\* The worker has sent its response and is free for the next request.
Return(p) ==
  /\ pc[p] = "done"
  /\ pc' = [pc EXCEPT ![p] = "idle"]
  /\ req' = [req EXCEPT ![p] = NoReq]
  /\ pre' = [pre EXCEPT ![p] = NoRow]
  /\ inv' = [inv EXCEPT ![p] = NoRow]
  /\ resp' = [resp EXCEPT ![p] = NoResp]
  /\ UNCHANGED <<rows, nextId>>

\* ---------------------------------------------------------- request sets
LedgerOps == {"reserve", "release", "commit"}

Ints(S) == {IntV(n) : n \in S}

LedgerReqs(P, S, Q) == {LedgerReq(o, p, s, q) : o \in LedgerOps, p \in P, s \in S, q \in Q}

\* well-formed reserve/release/commit requests on the products of P
ValidLedgerReqs(P) == LedgerReqs(Ints(P), {IntV(TheShop)}, Ints(1..MaxQty))

\* the same with missing or zero ids and missing, non-positive, non-numeric
\* and fractional quantities
WideLedgerReqs ==
  LedgerReqs({None, IntV(0)} \cup Ints(Pids), {None, IntV(TheShop)},
             {None, Text, Half(0), Half(1)} \cup Ints((-1)..MaxQty))

AvailabilityReqs ==
  {[NoReq EXCEPT !.op = "availability", !.product_id = p, !.shop_id = s] :
     p \in {None} \cup Ints(Pids), s \in {None, IntV(TheShop)}}

\* PATCH <pk>/update-stock/ with stock in St, threshold and meta in Ex
UpdateStockReqs(Ids, St, Ex) ==
  {[NoReq EXCEPT !.op = "update_stock", !.pk = i, !.stock = st, !.threshold = th, !.meta = m] :
     i \in Ids, st \in St, th \in Ex, m \in Ex}

\* POST / for the products of P; Up: the answers of the product service
CreateReqs(P, St, Ex, Up) ==
  {[NoReq EXCEPT !.op = "create", !.product_id = IntV(p), !.shop_id = IntV(TheShop),
                 !.stock = st, !.threshold = th, !.meta = m, !.upstream = u] :
     p \in P, st \in St, th \in Ex, m \in Ex, u \in Up}

\* stock values an owner may send: absent, negative, zero, positive
StockValues == {None} \cup Ints((-1)..MaxStock)

\* ------------------------------------------------------------ initial states
NoPrev == [op |-> "none", product_id |-> None, shop_id |-> None, quantity |-> None,
           status |-> 0, pre |-> NoRow]

Idle ==
  /\ pc = [p \in Procs |-> "idle"]
  /\ req = [p \in Procs |-> NoReq]
  /\ pre = [p \in Procs |-> NoRow]
  /\ inv = [p \in Procs |-> NoRow]
  /\ resp = [p \in Procs |-> NoResp]
  /\ calls = 0
  /\ committed = 0
  /\ prev = NoPrev

\* an empty table
Init ==
  /\ rows = {}
  /\ nextId = 1
  /\ start = rows
  /\ Idle

\* one record of product 1 with 0 <= reserved <= stock
InitLedger ==
  /\ \E st \in 0..MaxStock : \E rs \in 0..st :
       rows = {Row(1, 1, TheShop, st, rs, 0, 0)}
  /\ nextId = 2
  /\ start = rows
  /\ Idle

\* one record of product 1 with stock S >= 1 and reserved 0
InitRace ==
  /\ \E st \in 1..(MaxStock + 1) : rows = {Row(1, 1, TheShop, st, 0, 0, 0)}
  /\ nextId = 2
  /\ start = rows
  /\ Idle

\* ------------------------------------------------------------ specifications
\* Concurrent workers, every operation, well-formed requests on the pair
\* (product 1, the shop).
Next ==
  \E p \in Workers :
    \/ Create(p, CreateReqs({1}, Ints(0..MaxStock), {None}, {TRUE})) /\ UNCHANGED histVars
    \/ PerformCreate(p) /\ UNCHANGED histVars
    \/ UpdateStock(p, UpdateStockReqs({1}, Ints(0..MaxStock), {None})) /\ UNCHANGED histVars
    \/ Reserve(p, ValidLedgerReqs({1})) /\ UNCHANGED histVars
    \/ Release(p, ValidLedgerReqs({1})) /\ UNCHANGED histVars
    \/ Commit(p, ValidLedgerReqs({1})) /\ UNCHANGED histVars
    \/ Availability(p, {r \in AvailabilityReqs : r.product_id = IntV(1) /\ Truthy(r.shop_id)})
         /\ UNCHANGED histVars
    \/ Save(p) /\ UNCHANGED histVars
    \/ Return(p) /\ UNCHANGED histVars

Spec == Init /\ [][Next]_vars

\* One worker, every operation, requests of every shape: calls never overlap.
\* Records exist for product 1 only; requests also name the other products.
SeqNext ==
  \/ Create(1, CreateReqs({1}, StockValues, {None, IntV(1)}, BOOLEAN)) /\ UNCHANGED histVars
  \/ PerformCreate(1) /\ UNCHANGED histVars
  \/ UpdateStock(1, UpdateStockReqs(1..2, StockValues \cup {Text, Half(1)}, {None, IntV(1)}))
       /\ UNCHANGED histVars
  \/ Reserve(1, WideLedgerReqs) /\ UNCHANGED histVars
  \/ Release(1, WideLedgerReqs) /\ UNCHANGED histVars
  \/ Commit(1, WideLedgerReqs) /\ UNCHANGED histVars
  \/ Availability(1, AvailabilityReqs) /\ UNCHANGED histVars
  \/ Save(1) /\ UNCHANGED histVars
  \/ Return(1) /\ UNCHANGED histVars

SeqSpec == Init /\ [][SeqNext]_vars

\* What a sequential worker remembers of the call it has just completed: a
\* reserve call that found its record, with the record as it was read.
Remember(p) ==
  IF req[p].op = "reserve" /\ pre[p] # NoRow
  THEN [op |-> "reserve", product_id |-> req[p].product_id, shop_id |-> req[p].shop_id,
        quantity |-> req[p].quantity, status |-> resp[p].status, pre |-> pre[p]]
  ELSE NoPrev

\* One worker, reserve/release/commit only, on a record that starts with
\* 0 <= reserved <= stock.
LedgerSeqNext ==
  \/ Reserve(1, WideLedgerReqs) /\ UNCHANGED histVars
  \/ Release(1, WideLedgerReqs) /\ UNCHANGED histVars
  \/ Commit(1, WideLedgerReqs) /\ UNCHANGED histVars
  \/ Save(1) /\ UNCHANGED histVars
  \/ Return(1) /\ prev' = Remember(1) /\ UNCHANGED <<start, calls, committed>>

LedgerSeqSpec == InitLedger /\ [][LedgerSeqNext]_vars

\* Concurrent reserve calls only, one call per worker, on a record with
\* stock S and reserved 0.
RaceNext ==
  \E p \in Procs : 
    \/ Reserve(p, ValidLedgerReqs({1})) /\ UNCHANGED histVars
    \/ Save(p) /\ UNCHANGED histVars

RaceSpec == InitRace /\ [][RaceNext]_vars

\* the quantity a successful commit of worker p removes
CommitQty(p) == IF req[p].op = "commit" THEN PyInt(req[p].quantity).v ELSE 0

\* Concurrent reserve/release/commit calls on one record, no admin edits; at
\* most MaxCalls requests are accepted.
LedgerNext ==
  \E p \in Workers :
    \/ calls < MaxCalls /\ Reserve(p, ValidLedgerReqs({1})) /\ calls' = calls + 1
         /\ UNCHANGED <<start, committed, prev>>
    \/ calls < MaxCalls /\ Release(p, ValidLedgerReqs({1})) /\ calls' = calls + 1
         /\ UNCHANGED <<start, committed, prev>>
    \/ calls < MaxCalls /\ Commit(p, ValidLedgerReqs({1})) /\ calls' = calls + 1
         /\ UNCHANGED <<start, committed, prev>>
    \/ Save(p) /\ committed' = committed + CommitQty(p) /\ UNCHANGED <<start, calls, prev>>
    \/ Return(p) /\ UNCHANGED histVars

LedgerSpec == InitLedger /\ [][LedgerNext]_vars

\* Concurrent reserve/release/commit calls on one record, no admin edits,
\* any number of requests.
InterleaveNext ==
  \E p \in Workers :
    \/ Reserve(p, ValidLedgerReqs({1})) /\ UNCHANGED histVars
    \/ Release(p, ValidLedgerReqs({1})) /\ UNCHANGED histVars
    \/ Commit(p, ValidLedgerReqs({1})) /\ UNCHANGED histVars
    \/ Save(p) /\ UNCHANGED histVars
    \/ Return(p) /\ UNCHANGED histVars

InterleaveSpec == InitLedger /\ [][InterleaveNext]_vars

\* a record per product, each with stock MaxStock and one unit reserved
InitKeys ==
  /\ rows = {Row(k, k, TheShop, MaxStock, 1, 0, 0) : k \in Pids}
  /\ nextId = NumProducts + 1
  /\ start = rows
  /\ Idle

\* reserve, release and commit of one unit or of MaxQty units, and update_stock
\* to no stock, on the record of any product
KeyReqs ==
  LedgerReqs(Ints(Pids), {IntV(TheShop)}, Ints({1, MaxQty}))
    \cup UpdateStockReqs(Pids, {IntV(0)}, {None})

\* Concurrent reserve, release, commit and update_stock calls on the records
\* of several products, one call per worker.
KeysNext ==
  \E p \in Workers :
    \/ Reserve(p, KeyReqs) /\ UNCHANGED histVars
    \/ Release(p, KeyReqs) /\ UNCHANGED histVars
    \/ Commit(p, KeyReqs) /\ UNCHANGED histVars
    \/ UpdateStock(p, KeyReqs) /\ UNCHANGED histVars
    \/ Save(p) /\ UNCHANGED histVars

KeysSpec == InitKeys /\ [][KeysNext]_vars

\* ------------------------------------------------------------- properties
\* The stored record of the pair a request names (NoRow: none).
Stored(r) == Lookup(rows, r.product_id.v, r.shop_id.v)

\* Both ids present and the quantity a positive integer.
ValidArgs(r) ==
  /\ r.product_id.kind = "int" /\ r.product_id.v # 0
  /\ r.shop_id.kind = "int" /\ r.shop_id.v # 0
  /\ r.quantity.kind = "int" /\ r.quantity.v > 0

\* A handler run with no other worker between its read and its save.
SeqRun(db, r) ==
  LET o == Handle(db, r)
  IN IF o.next = "save"
     THEN [rows |-> SaveRow(db, o.inv), resp |-> Data(200, o.inv)]
     ELSE [rows |-> db, resp |-> o.resp]

\* the record of the initial state of the ledger specifications
StartRow == CHOOSE r \in start : TRUE

\* C1: after every call of a sequential run of reserve, release and commit
\* calls on a record that started with 0 <= reserved <= stock, the stored
\* record has 0 <= reserved <= stock and stock >= 0.
C1_InvariantPreserved ==
  \A r \in rows : 0 <= r.reserved /\ r.reserved <= r.stock /\ r.stock >= 0

\* a commit has succeeded and emptied a record that started with stock
C1_Witness ==
  /\ pc[1] = "done" /\ req[1].op = "commit" /\ resp[1].status = 200
  /\ StartRow.stock > 0
  /\ \E r \in rows : r.stock = 0 /\ r.reserved = 0

\* C2: with only concurrent reserve calls on a record of stock S and
\* reserved 0, no stored state has reserved > S.
C2_ReservedNeverAboveStock ==
  \A r \in rows : r.reserved <= StartRow.stock

\* two reserve calls that read the same state of the record have both saved
C2_Witness ==
  \E p, q \in Procs :
    /\ p # q /\ pc[p] = "done" /\ pc[q] = "done"
    /\ resp[p].status = 200 /\ resp[q].status = 200
    /\ pre[p] = pre[q]

\* C3: when every one of the N racing reserve calls of quantity q has
\* returned, exactly S \div q of them succeeded and the others were rejected
\* for insufficient availability.
C3_ExactlyFloorSucceed ==
  \A q \in 1..MaxQty :
    ( /\ \A p \in Procs : pc[p] = "done" /\ req[p].quantity = IntV(q)
      /\ NumRacers >= StartRow.stock \div q )
    => /\ Cardinality({p \in Procs : resp[p].status = 200}) = StartRow.stock \div q
       /\ \A p \in Procs : resp[p].status # 200 => resp[p] = NoStockErr

\* C4: two operations, one per worker, on the same record return the
\* responses and leave the table that running them one after the other, in
\* one of the two orders, returns and leaves.
C4_Linearizable ==
  \A a, b \in Workers :
    (a # b /\ calls = 2 /\ pc[a] = "done" /\ pc[b] = "done")
    => \E f \in {<<a, b>>, <<b, a>>} :
         LET x == SeqRun(start, req[f[1]])
             y == SeqRun(x.rows, req[f[2]])
         IN x.resp = resp[f[1]] /\ y.resp = resp[f[2]] /\ y.rows = rows

\* C5: the quantities of the successful commits never add up to more than
\* the initial stock of the record.
C5_NeverOvercommit == committed <= StartRow.stock

\* C6: a reserve call with valid arguments on a pair without a record
\* returns NotFound; on a record with quantity > stock - reserved it returns
\* the insufficient-availability rejection, which is not NotFound; in both
\* cases the table is left as it was and nothing is saved later.
C6_NotFoundVsInsufficient ==
  [][\A p \in Procs :
       (pc[p] = "idle" /\ pc'[p] # "idle" /\ req'[p].op = "reserve" /\ ValidArgs(req'[p]))
       => LET rec == {r \in rows : /\ r.product_id = req'[p].product_id.v
                                   /\ r.shop_id = req'[p].shop_id.v}
          IN /\ rec = {} => resp'[p] = NotFoundErr /\ rows' = rows /\ pc'[p] = "done"
             /\ \A r \in rec :
                  req'[p].quantity.v > r.stock - r.reserved
                  => /\ resp'[p] = NoStockErr /\ resp'[p] # NotFoundErr
                     /\ rows' = rows /\ pc'[p] = "done"]_vars

\* a reserve call was rejected for insufficient availability on a record
\* that has some units reserved
C6_Witness ==
  /\ pc[1] = "done" /\ req[1].op = "reserve" /\ ValidArgs(req[1])
  /\ resp[1] = NoStockErr
  /\ \E r \in rows : r.reserved > 0 /\ r.stock >= req[1].quantity.v

\* C7: reserve(q) with 0 < q <= stock - reserved succeeds, and release(q)
\* called right after it leaves reserved as it was before the reserve and
\* stock unchanged.
C7_ReserveReleaseRoundTrip ==
  ( /\ pc[1] = "done" /\ req[1].op = "release" /\ ValidArgs(req[1])
    /\ prev.op = "reserve"
    /\ prev.product_id = req[1].product_id /\ prev.shop_id = req[1].shop_id
    /\ prev.quantity = req[1].quantity
    /\ prev.quantity.v <= prev.pre.stock - prev.pre.reserved )
  => /\ prev.status = 200
     /\ resp[1].status = 200
     /\ Stored(req[1]).reserved = prev.pre.reserved
     /\ Stored(req[1]).stock = prev.pre.stock

\* a release has undone a reserve on a record that had units reserved before
C7_Witness ==
  /\ pc[1] = "done" /\ req[1].op = "release" /\ ValidArgs(req[1])
  /\ prev.op = "reserve" /\ prev.status = 200
  /\ prev.product_id = req[1].product_id /\ prev.quantity = req[1].quantity
  /\ prev.pre.reserved > 0
  /\ Stored(req[1]).reserved = prev.pre.reserved

\* C8: commit(q) with 0 < q <= reserved, run alone, succeeds and leaves
\* reserved - q and max(stock - q, 0), which is stock - q when
\* reserved <= stock held before.
C8_CommitEffect ==
  ( /\ pc[1] = "done" /\ req[1].op = "commit" /\ ValidArgs(req[1])
    /\ pre[1] # NoRow
    /\ req[1].quantity.v <= pre[1].reserved )
  => /\ resp[1].status = 200
     /\ Stored(req[1]).reserved = pre[1].reserved - req[1].quantity.v
     /\ Stored(req[1]).stock = Max(pre[1].stock - req[1].quantity.v, 0)
     /\ pre[1].reserved <= pre[1].stock
          => Stored(req[1]).stock = pre[1].stock - req[1].quantity.v
     /\ resp[1].stock = Stored(req[1]).stock
     /\ resp[1].reserved = Stored(req[1]).reserved

\* a commit has succeeded on a record whose stock was below the quantity
C8_Witness ==
  /\ pc[1] = "done" /\ req[1].op = "commit" /\ ValidArgs(req[1])
  /\ resp[1].status = 200
  /\ pre[1].stock >= 0 /\ pre[1].stock < req[1].quantity.v
  /\ Stored(req[1]).stock = 0

\* C9: release(q) with q > 0 on an existing record succeeds and leaves
\* reserved = max(reserved - q, 0), never negative, and stock unchanged.
C9_ReleaseClamps ==
  ( /\ pc[1] = "done" /\ req[1].op = "release" /\ ValidArgs(req[1])
    /\ \E r \in rows : /\ r.product_id = req[1].product_id.v
                       /\ r.shop_id = req[1].shop_id.v )
  => /\ resp[1].status = 200
     /\ pre[1] # NoRow
     /\ Stored(req[1]).reserved = Max(pre[1].reserved - req[1].quantity.v, 0)
     /\ Stored(req[1]).reserved >= 0
     /\ Stored(req[1]).stock = pre[1].stock

\* a release of more than was reserved has left reserved = 0
C9_Witness ==
  /\ pc[1] = "done" /\ req[1].op = "release" /\ ValidArgs(req[1])
  /\ resp[1].status = 200
  /\ pre[1].reserved > 0 /\ req[1].quantity.v > pre[1].reserved
  /\ Stored(req[1]).reserved = 0

\* C10: availability on an existing record returns the record's stock and
\* reserved and available = stock - reserved.
C10_AvailableIsDifference ==
  \A p \in Procs :
    (pc[p] = "done" /\ req[p].op = "availability" /\ resp[p].status = 200)
    => \A r \in rows :
         (r.product_id = req[p].product_id.v /\ r.shop_id = req[p].shop_id.v)
         => /\ resp[p].stock = r.stock
            /\ resp[p].reserved = r.reserved
            /\ resp[p].available = r.stock - r.reserved

\* The records of the pair a request names, in the table db.
RecordsOf(db, r) ==
  {x \in db : x.product_id = r.product_id.v /\ x.shop_id = r.shop_id.v}

\* Worker p takes a request of one of the operations of Ops in this step.
Takes(p, Ops) == pc[p] = "idle" /\ pc'[p] # "idle" /\ req'[p].op \in Ops

\* C11: availability with both ids present on a pair without a record
\* returns {available: 0, stock: 0, reserved: 0} with status 200, and no
\* availability call creates or changes a record or saves anything later.
C11_AvailabilityOfNoRecord ==
  [][\A p \in Procs :
       Takes(p, {"availability"})
       => /\ rows' = rows /\ nextId' = nextId /\ pc'[p] = "done"
          /\ ( /\ Truthy(req'[p].product_id) /\ Truthy(req'[p].shop_id)
               /\ RecordsOf(rows, req'[p]) = {} )
             => /\ resp'[p].status = 200
                /\ resp'[p].available = 0 /\ resp'[p].stock = 0 /\ resp'[p].reserved = 0]_vars

\* availability has answered zeros for a pair without a record while another
\* pair has a record with stock
C11_Witness ==
  /\ pc[1] = "done" /\ req[1].op = "availability" /\ resp[1].status = 200
  /\ Truthy(req[1].product_id) /\ Truthy(req[1].shop_id)
  /\ RecordsOf(rows, req[1]) = {}
  /\ \E x \in rows : x.stock > 0

\* C12: a reserve, release or commit call with a missing product_id, a
\* missing shop_id or a quantity <= 0 returns the validation error, whether
\* or not a record exists, and changes no record.
C12_ValidationFirst ==
  [][\A p \in Procs :
       ( /\ Takes(p, LedgerOps)
         /\ \/ req'[p].product_id = None
            \/ req'[p].shop_id = None
            \/ (req'[p].quantity.kind = "int" /\ req'[p].quantity.v <= 0) )
       => resp'[p] = ValidationErr /\ pc'[p] = "done" /\ rows' = rows]_vars

\* C13: after an update_stock call that was accepted, the stored record has
\* stock >= 0 and 0 <= reserved <= stock.
C13_AdminRevalidates ==
  \A p \in Procs :
    (pc[p] = "done" /\ req[p].op = "update_stock" /\ resp[p].status = 200)
    => \A x \in rows :
         x.id = req[p].pk => x.stock >= 0 /\ 0 <= x.reserved /\ x.reserved <= x.stock

\* C16: commit(q) with q > reserved on an existing record is rejected with
\* the insufficient-reserved outcome, which is not NotFound; and a reserve,
\* release or commit call that is rejected leaves the table unchanged and
\* saves nothing later.
C16_RejectionsChangeNothing ==
  [][\A p \in Procs :
       Takes(p, LedgerOps)
       => /\ ( /\ req'[p].op = "commit" /\ ValidArgs(req'[p])
               /\ \E x \in RecordsOf(rows, req'[p]) : req'[p].quantity.v > x.reserved )
             => resp'[p] = NoReservedErr /\ resp'[p] # NotFoundErr
          /\ resp'[p] \in {ValidationErr, NotFoundErr, NoStockErr, NoReservedErr}
             => pc'[p] = "done" /\ rows' = rows
          /\ pc'[p] = "save"
             => resp'[p] \notin {ValidationErr, NotFoundErr, NoStockErr, NoReservedErr}]_vars

\* a commit of more than is reserved was rejected on a record that has units
\* reserved
C16_Witness ==
  /\ pc[1] = "done" /\ req[1].op = "commit" /\ ValidArgs(req[1])
  /\ resp[1] = NoReservedErr
  /\ \E x \in RecordsOf(rows, req[1]) : x.reserved > 0 /\ x.reserved < req[1].quantity.v

\* C20: a reserve, release or commit call whose quantity is not an integer
\* (a non-numeric string, a fractional number) returns the validation error
\* and never reaches a save.
C20_NonIntegerQuantityRejected ==
  \A p \in Procs :
    (req[p].op \in LedgerOps /\ req[p].quantity.kind \in {"text", "float"})
    => pc[p] = "done" /\ resp[p] = ValidationErr

\* Worker p runs the inv.save() of an operation of Ops in this step.
Saves(p, Ops) == pc[p] = "save" /\ pc'[p] = "done" /\ req[p].op \in Ops

\* C14: an admin write (the save of update_stock, a create on an existing
\* pair) leaves the stored reserved of its record as it was immediately
\* before the write.
C14_AdminKeepsReserved ==
  [][\A p \in Procs :
       /\ Saves(p, {"update_stock"})
          => \A x \in rows : x.id = inv[p].id
               => \E y \in rows' : y.id = x.id /\ y.reserved = x.reserved
       /\ Takes(p, {"create"})
          => \A x \in RecordsOf(rows, req'[p]) :
               \E y \in rows' : y.id = x.id /\ y.reserved = x.reserved]_vars

\* C17: with reserve, release and commit calls only, the stored stock never
\* increases from one state to the next, and the save of a reserve or of a
\* release leaves the stored stock as it was.
C17_StockNeverIncreases ==
  [][/\ \A x \in rows : \A y \in rows' : y.id = x.id => y.stock <= x.stock
     /\ \A p \in Procs :
          Saves(p, {"reserve", "release"})
          => \A x \in rows : \A y \in rows' : y.id = x.id => y.stock = x.stock]_vars

\* C19: in every interleaving of reserve, release and commit calls on a
\* record that starts with 0 <= reserved <= stock, every stored state has
\* reserved >= 0, stock >= 0 and reserved <= stock.
C19_InterleavingsKeepInvariant ==
  \A x \in rows : x.reserved >= 0 /\ x.stock >= 0 /\ x.stock - x.reserved >= 0

\* an update was lost: a commit and a reserve read the same state of the
\* record, both succeeded, and the record stored is the one the reserve wrote
C19_Witness ==
  \E a, b \in Workers :
    /\ a # b /\ pc[a] = "done" /\ pc[b] = "done"
    /\ resp[a].status = 200 /\ resp[b].status = 200
    /\ req[a].op = "commit" /\ req[b].op = "reserve"
    /\ pre[a] = pre[b]
    /\ rows = {inv[b]}

\* C15: at most one record exists per (product_id, shop_id), and a create
\* call for a pair that has a record is accepted and updates that record's
\* stock, threshold and meta in place, keeping its id and its reserved.
C15_UpsertByKey ==
  /\ \A x, y \in rows : (x.product_id = y.product_id /\ x.shop_id = y.shop_id) => x = y
  /\ \A p \in Procs :
       (pc[p] = "done" /\ req[p].op = "create" /\ req[p].upstream /\ pre[p] # NoRow)
       => /\ resp[p].status = 201
          /\ inv[p] = [pre[p] EXCEPT !.stock = GetOr(req[p].stock, 0),
                                     !.threshold = GetOr(req[p].threshold, 0),
                                     !.meta = GetOr(req[p].meta, 0)]
          /\ inv[p].id = pre[p].id /\ inv[p].reserved = pre[p].reserved

KeyOps == {"reserve", "release", "commit", "update_stock"}

\* The records of the key a request names: the pair of a reserve, release or
\* commit call, the pk of an update_stock call.
OwnRecords(db, r) ==
  IF r.op = "update_stock" THEN {x \in db : x.id = r.pk} ELSE RecordsOf(db, r)

\* A worker that is idle can take any request and a worker that has read
\* can save, whatever the other workers are doing.
NeverBlocked ==
  \A p \in Workers :
    /\ pc[p] = "idle"
       => \A r \in KeyReqs : ENABLED Begin(p, r)
    /\ pc[p] = "save" => ENABLED Save(p)

\* C18: a reserve, release, commit or update_stock call on one key returns
\* and prepares what it would with the records of the other keys absent,
\* whatever the other workers are doing; its save leaves every other record
\* as it was; and no worker is ever blocked by another.
C18_KeysIndependent ==
  /\ []NeverBlocked
  /\ [][\A p \in Workers :
          /\ Takes(p, KeyOps)
             => /\ rows' = rows
                /\ LET o == Handle(OwnRecords(rows, req'[p]), req'[p])
                   IN /\ pc'[p] = o.next /\ pre'[p] = o.pre
                      /\ inv'[p] = o.inv /\ resp'[p] = o.resp
          /\ Saves(p, KeyOps)
             => /\ \A x \in rows : x.id # inv[p].id => x \in rows'
                /\ \A y \in rows' : y.id # inv[p].id => y \in rows]_vars

\* a call on one product has saved while a call on another product, which
\* read before that save, is still to save; the record of the second is as
\* it was read
C18_Witness ==
  \E a, b \in Workers :
    /\ pc[a] = "done" /\ resp[a].status = 200 /\ pc[b] = "save"
    /\ pre[a].product_id # pre[b].product_id
    /\ inv[a] \in rows /\ inv[a] # pre[a]
    /\ pre[b] \in rows /\ inv[b] # pre[b]

=============================================================================
